---- MODULE Spec2Model ----
(***************************************************************************)
(* Barrett-reduction backend of src/core_crypto/modulus/barrett.rs.        *)
(*                                                                         *)
(* The trait BarrettBackend<Scalar, ScalarDoubled> is modelled for one     *)
(* instantiation of its type parameters: Scalar is an unsigned integer of  *)
(* ScalarBits bits and ScalarDoubled one of 2*ScalarBits bits.  A backend  *)
(* holds the four values its accessors return; callers run add_mod_fast,   *)
(* sub_mod_fast and mul_mod_fast on it, one source statement per step.     *)
(*                                                                         *)
(* Rust integer arithmetic is modelled with its width: in a debug build    *)
(* (debug assertions and overflow checks on) an overflowing +, -, * or an  *)
(* oversized shift panics, in a release build it wraps (the shift amount   *)
(* is reduced modulo the bit width).  `as` conversions always truncate.    *)
(***************************************************************************)
EXTENDS Integers, FiniteSets, Sequences, TLC

\* Bit width of Scalar (size_of::<Scalar>() * 8).
ScalarBits == 7

\* Number of concurrent callers of one backend in SpecConcurrent.
NumCallers == 2

\* Bit width of ScalarDoubled.
DoubledBits == 2 * ScalarBits

ScalarRange == 2 ^ ScalarBits

DoubledRange == 2 ^ DoubledBits

\* The moduli with the headroom the operations assume: 1 <= m < 2^(W-2).
Moduli == 1 .. (2 ^ (ScalarBits - 2) - 1)

Callers == 1 .. NumCallers

\* The outcome of an arithmetic step that panicked.
Panic == -1

(***************************************************************************)
(* Integer helpers                                                         *)
(***************************************************************************)

\* Scalar::leading_zeros: zero bits above the highest set bit, counted
\* from bit k (1-based) downwards.
RECURSIVE LeadingZerosFrom(_, _)
LeadingZerosFrom(x, k) ==
    IF k = 0 THEN 0
    ELSE IF x >= 2 ^ (k - 1) THEN 0
    ELSE 1 + LeadingZerosFrom(x, k - 1)

leading_zeros(x) == LeadingZerosFrom(x, ScalarBits)

\* `as` conversion to Scalar: keeps the low ScalarBits bits.
AsScalar(x) == x % ScalarRange

\* Checked/wrapping arithmetic of a type with `range` values: Panic in a debug
\* build when the exact result is outside the type, the wrapped value otherwise.
Checked(exact, range, debug) ==
    IF exact >= 0 /\ exact < range THEN exact
    ELSE IF debug THEN Panic
    ELSE exact % range

\* x >> s on a type of `bits` bits: a shift amount >= bits panics in a debug
\* build and is reduced modulo bits in a release build.
CheckedShr(x, s, bits, debug) ==
    IF s < bits THEN x \div (2 ^ s)
    ELSE IF debug THEN Panic
    ELSE x \div (2 ^ (s % bits))

(***************************************************************************)
(* Constant precomputation                                                 *)
(***************************************************************************)

\* ModulusBitsOf with the 0-based index of the highest set bit.
ModulusBitsOf_ZeroBased(m) == ScalarBits - leading_zeros(m) - 1

\* let modulus_bits = size_of::<Scalar>() * 8 - modulus.leading_zeros()
ModulusBitsOf(m) == ScalarBits - leading_zeros(m)

\* let mu = (1u128 << (modulus_bits * 2 + 3)) / modulus as u128
\* (2 * modulus_bits + 3 < 128 for every modulus in Moduli)
WideMu(m) == (2 ^ (ModulusBitsOf(m) * 2 + 3)) \div m

\* (modulus_bits + 3, mu.as_())
precompute_alpha_and_barrett_constant(m) ==
    <<ModulusBitsOf(m) + 3, AsScalar(WideMu(m))>>

(***************************************************************************)
(* The statements of the three operations, as functions of what they read  *)
(***************************************************************************)

\* AssertOk with the second debug_assert! left out.
AssertOk_FirstOnly(x, y, m) == x < m

\* debug_assert!(a < self.modulus()); debug_assert!(b < self.modulus());
AssertOk(x, y, m) == x < m /\ y < m

\* let mut c = a + b;
AddSum(x, y, debug) == Checked(x + y, ScalarRange, debug)

\* AddCorrect comparing with > instead of >=.
AddCorrect_Strict(c, m) == IF c > m THEN c - m ELSE c

\* if c >= self.modulus() { c -= self.modulus(); } c
AddCorrect(c, m) == IF c >= m THEN c - m ELSE c

\* SubStep comparing with > instead of >=.
SubStep_Strict(x, y, m, debug) ==
    IF x > y THEN x - y
    ELSE LET s == Checked(x + m, ScalarRange, debug)
         IN  IF s = Panic THEN Panic ELSE Checked(s - y, ScalarRange, debug)

\* if a >= b { a - b } else { (a + self.modulus()) - b }
SubStep(x, y, m, debug) ==
    IF x >= y THEN x - y
    ELSE LET s == Checked(x + m, ScalarRange, debug)
         IN  IF s = Panic THEN Panic ELSE Checked(s - y, ScalarRange, debug)

\* MulAb squaring its first operand.
MulAb_Square(x, y, debug) == Checked(x * x, DoubledRange, debug)

\* let ab = a as ScalarDoubled * b as ScalarDoubled;
MulAb(x, y, debug) == Checked(x * y, DoubledRange, debug)

\* let tmp = ab >> (self.modulus_bits() - 2);
\* modulus_bits() - 2 is a usize subtraction: below zero it panics in a debug
\* build and wraps to 2^64 + modulus_bits - 2 in a release build, where the
\* shift then reduces it modulo the bit width of ScalarDoubled.
MulShift(ab, n, debug) ==
    IF n >= 2 THEN CheckedShr(ab, n - 2, DoubledBits, debug)
    ELSE IF debug THEN Panic
    ELSE ab \div (2 ^ ((n - 2 + DoubledBits) % DoubledBits))

\* let q = (tmp * self.barrett_constant().as_()) >> (self.barrett_alpha() + 2);
MulQ(tmp, mu, alpha, debug) ==
    LET p == Checked(tmp * mu, DoubledRange, debug)
    IN  IF p = Panic THEN Panic ELSE CheckedShr(p, alpha + 2, DoubledBits, debug)

\* let tmp = q * self.modulus().as_();
MulQTimesModulus(q, m, debug) == Checked(q * m, DoubledRange, debug)

\* let mut res = (ab - tmp).as_();
MulRes(ab, tmp, debug) ==
    LET d == Checked(ab - tmp, DoubledRange, debug)
    IN  IF d = Panic THEN Panic ELSE AsScalar(d)

\* if res >= self.modulus() { res -= self.modulus(); } res
MulCorrect(res, m) == IF res >= m THEN res - m ELSE res

(***************************************************************************)
(* The operations run to completion by one caller: the value returned, or  *)
(* Panic                                                                   *)
(***************************************************************************)

add_mod_fast(x, y, m, debug) ==
    IF debug /\ ~AssertOk(x, y, m) THEN Panic
    ELSE LET c == AddSum(x, y, debug)
         IN  IF c = Panic THEN Panic ELSE AddCorrect(c, m)

sub_mod_fast(x, y, m, debug) ==
    IF debug /\ ~AssertOk(x, y, m) THEN Panic
    ELSE SubStep(x, y, m, debug)

mul_mod_fast(x, y, m, n, mu, alpha, debug) ==
    IF debug /\ ~AssertOk(x, y, m) THEN Panic
    ELSE LET ab == MulAb(x, y, debug)
             t1 == IF ab = Panic THEN Panic ELSE MulShift(ab, n, debug)
             q  == IF t1 = Panic THEN Panic ELSE MulQ(t1, mu, alpha, debug)
             t2 == IF q = Panic THEN Panic ELSE MulQTimesModulus(q, m, debug)
             r  == IF t2 = Panic THEN Panic ELSE MulRes(ab, t2, debug)
         IN  IF r = Panic THEN Panic ELSE MulCorrect(r, m)

(***************************************************************************)
(* State                                                                   *)
(***************************************************************************)

VARIABLES
    debug_build,       \* TRUE: debug assertions and overflow checks are on
    modulus,           \* what self.modulus() returns
    modulus_bits,      \* what self.modulus_bits() returns
    barrett_constant,  \* what self.barrett_constant() returns
    barrett_alpha,     \* what self.barrett_alpha() returns
    call               \* per caller: position, operation, arguments, locals

vars == <<debug_build, modulus, modulus_bits, barrett_constant, barrett_alpha, call>>

backend == <<modulus, modulus_bits, barrett_constant, barrett_alpha>>

Ops == {"add", "sub", "mul"}

\* A caller that is not inside an operation.
Idle ==
    [pc |-> "idle", op |-> "add", a |-> 0, b |-> 0,
     c |-> 0, ab |-> 0, tmp |-> 0, q |-> 0, res |-> 0, ret |-> 0]

\* The operands callers pass in Spec: every residue, and two values that
\* violate the precondition (the modulus itself and the largest Scalar).
Operands == (0 .. modulus) \cup {ScalarRange - 1}

\* The operands callers pass in SpecConcurrent: the boundary residues and
\* one value that violates the precondition.
BoundaryOperands == {0, modulus - 1, modulus}

\* The modulus of the backend shared in SpecConcurrent (the one of the
\* specification's worked example).
ConcurrentModuli == {17}

\* A backend for a modulus of M, in either build: modulus() returns the
\* modulus, barrett_alpha() and barrett_constant() the pair computed by
\* precompute_alpha_and_barrett_constant, and modulus_bits() the bit length
\* that function derives (alpha - 3).  No caller is inside an operation.
InitBackend(M) ==
    /\ debug_build \in BOOLEAN
    /\ modulus \in M
    /\ modulus_bits = ModulusBitsOf(modulus)
    /\ barrett_alpha = precompute_alpha_and_barrett_constant(modulus)[1]
    /\ barrett_constant = precompute_alpha_and_barrett_constant(modulus)[2]
    /\ call = [t \in Callers |-> Idle]

Init == InitBackend(Moduli)

InitConcurrent == InitBackend(ConcurrentModuli)

(***************************************************************************)
(* Steps of a caller t                                                     *)
(***************************************************************************)

\* Caller t moves to position `to` with the fields in `upd`
\* (a function from field names to values) assigned.
Goto(t, to, upd) ==
    /\ call' = [call EXCEPT ![t] =
                  [f \in DOMAIN Idle |->
                     IF f = "pc" THEN to
                     ELSE IF f \in DOMAIN upd THEN upd[f]
                     ELSE call[t][f]]]
    /\ UNCHANGED <<debug_build, backend>>

\* A panic inside the operation unwinds caller t; nothing is returned.
GotoOrPanic(t, v, to, upd) ==
    IF v = Panic THEN Goto(t, "panicked", <<>>) ELSE Goto(t, to, upd)

\* Caller t returns v: the locals die, the arguments and v stay visible.
Return(t, v) ==
    /\ call' = [call EXCEPT ![t] =
                  [Idle EXCEPT !.pc = "done", !.op = call[t].op,
                               !.a = call[t].a, !.b = call[t].b, !.ret = v]]
    /\ UNCHANGED <<debug_build, backend>>

\* Caller t invokes one of the operations on two of `operands`.
Call(t, operands) ==
    /\ call[t].pc = "idle"
    /\ \E o \in Ops, x \in operands, y \in operands :
          call' = [call EXCEPT ![t] =
                     [Idle EXCEPT !.pc = "assert", !.op = o, !.a = x, !.b = y]]
    /\ UNCHANGED <<debug_build, backend>>

\* Caller t feeds the value its last call returned into a further operation,
\* as the first operand and with the same second operand.
CallAgain(t) ==
    /\ call[t].pc = "done"
    /\ \E o \in Ops :
          call' = [call EXCEPT ![t] =
                     [Idle EXCEPT !.pc = "assert", !.op = o,
                                  !.a = call[t].ret, !.b = call[t].b]]
    /\ UNCHANGED <<debug_build, backend>>

\* The two debug_assert! lines that open each operation.
AssertOperands(t) ==
    /\ call[t].pc = "assert"
    /\ IF debug_build /\ ~AssertOk(call[t].a, call[t].b, modulus)
       THEN Goto(t, "assert_failed", <<>>)
       ELSE Goto(t, call[t].op \o "_1", <<>>)

AddSumStep(t) ==
    /\ call[t].pc = "add_1"
    /\ LET c == AddSum(call[t].a, call[t].b, debug_build)
       IN  GotoOrPanic(t, c, "add_2", [f \in {"c"} |-> c])

AddCorrectStep(t) ==
    /\ call[t].pc = "add_2"
    /\ Return(t, AddCorrect(call[t].c, modulus))

SubStepStep(t) ==
    /\ call[t].pc = "sub_1"
    /\ LET r == SubStep(call[t].a, call[t].b, modulus, debug_build)
       IN  IF r = Panic THEN Goto(t, "panicked", <<>>) ELSE Return(t, r)

MulAbStep(t) ==
    /\ call[t].pc = "mul_1"
    /\ LET ab == MulAb(call[t].a, call[t].b, debug_build)
       IN  GotoOrPanic(t, ab, "mul_2", [f \in {"ab"} |-> ab])

MulShiftStep(t) ==
    /\ call[t].pc = "mul_2"
    /\ LET tmp == MulShift(call[t].ab, modulus_bits, debug_build)
       IN  GotoOrPanic(t, tmp, "mul_3", [f \in {"tmp"} |-> tmp])

\* MulQStep keeping the quotient estimate in the backend's barrett constant.
MulQStep_Scratch(t) ==
    /\ call[t].pc = "mul_3"
    /\ LET q == MulQ(call[t].tmp, barrett_constant, barrett_alpha, debug_build)
       IN  IF q = Panic
           THEN Goto(t, "panicked", <<>>)
           ELSE /\ call' = [call EXCEPT ![t].pc = "mul_4", ![t].q = q]
                /\ barrett_constant' = q
                /\ UNCHANGED <<debug_build, modulus, modulus_bits, barrett_alpha>>

MulQStep(t) ==
    /\ call[t].pc = "mul_3"
    /\ LET q == MulQ(call[t].tmp, barrett_constant, barrett_alpha, debug_build)
       IN  GotoOrPanic(t, q, "mul_4", [f \in {"q"} |-> q])

MulQTimesModulusStep(t) ==
    /\ call[t].pc = "mul_4"
    /\ LET tmp == MulQTimesModulus(call[t].q, modulus, debug_build)
       IN  GotoOrPanic(t, tmp, "mul_5", [f \in {"tmp"} |-> tmp])

MulResStep(t) ==
    /\ call[t].pc = "mul_5"
    /\ LET res == MulRes(call[t].ab, call[t].tmp, debug_build)
       IN  GotoOrPanic(t, res, "mul_6", [f \in {"res"} |-> res])

MulCorrectStep(t) ==
    /\ call[t].pc = "mul_6"
    /\ Return(t, MulCorrect(call[t].res, modulus))

\* One statement of an operation in progress in caller t.
Step(t) ==
    \/ AssertOperands(t)
    \/ AddSumStep(t)
    \/ AddCorrectStep(t)
    \/ SubStepStep(t)
    \/ MulAbStep(t)
    \/ MulShiftStep(t)
    \/ MulQStep(t)
    \/ MulQTimesModulusStep(t)
    \/ MulResStep(t)
    \/ MulCorrectStep(t)

\* One caller using the backend.
Next == Call(1, Operands) \/ CallAgain(1) \/ Step(1)

Spec == Init /\ [][Next]_vars

\* Several callers sharing the backend, one call each, their statements
\* interleaved.
NextConcurrent == \E t \in Callers : Call(t, BoundaryOperands) \/ Step(t)

SpecConcurrent == InitConcurrent /\ [][NextConcurrent]_vars

(***************************************************************************)
(* Properties                                                              *)
(***************************************************************************)

\* The 1-based position of the highest set bit of m >= 1.
HighestSetBit(m) == CHOOSE k \in 1 .. ScalarBits : 2 ^ (k - 1) <= m /\ m < 2 ^ k

\* Caller t's operands satisfy the precondition a, b in [0, modulus).
Valid(t) == call[t].a < modulus /\ call[t].b < modulus

\* Caller t is inside or has just left a call of operation o.
In(t, o) == call[t].pc # "idle" /\ call[t].op = o

\* How caller t's call ended: the value returned, or Panic.
Outcome(t) == IF call[t].pc = "done" THEN call[t].ret ELSE Panic

Ended(t) == call[t].pc \in {"done", "panicked", "assert_failed"}

\* C1: with the constants of precompute_alpha_and_barrett_constant(m) and
\* operands in [0, m), the value mul_mod_fast returns is (a*b) mod m.
C1_MulIsProductModM ==
    \A t \in Callers :
        In(t, "mul") /\ Valid(t) /\ call[t].pc = "done" =>
            call[t].ret = (call[t].a * call[t].b) % modulus

\* C2: with operands in [0, m), add_mod_fast returns (a+b) mod m, a+b fits
\* the scalar width and the sum is below 2m, so one subtraction suffices.
C2_AddIsSumModM ==
    \A t \in Callers :
        In(t, "add") /\ Valid(t) =>
            /\ call[t].pc # "panicked"
            /\ call[t].pc = "add_1" => call[t].a + call[t].b < ScalarRange
            /\ call[t].pc = "add_2" =>
                  /\ call[t].c = call[t].a + call[t].b
                  /\ call[t].c < 2 * modulus
            /\ call[t].pc = "done" => call[t].ret = (call[t].a + call[t].b) % modulus

\* C2 witness: an addition whose sum reached the modulus and was corrected.
C2_Witness ==
    /\ In(1, "add") /\ Valid(1) /\ call[1].pc = "done"
    /\ call[1].a + call[1].b > modulus
    /\ call[1].ret = call[1].a + call[1].b - modulus
    /\ call[1].ret > 0

\* C3: with operands in [0, m), sub_mod_fast returns (a-b) mod m; on the
\* a < b path a+m fits the scalar width and (a+m)-b does not go below zero.
C3_SubIsDifferenceModM ==
    \A t \in Callers :
        In(t, "sub") /\ Valid(t) =>
            /\ call[t].pc # "panicked"
            /\ call[t].pc = "sub_1" /\ call[t].a < call[t].b =>
                  /\ call[t].a + modulus < ScalarRange
                  /\ call[t].a + modulus >= call[t].b
            /\ call[t].pc = "done" =>
                  call[t].ret = (call[t].a + modulus - call[t].b) % modulus

\* C3 witness: a subtraction that took the a < b path and returned.
C3_Witness ==
    /\ In(1, "sub") /\ Valid(1) /\ call[1].pc = "done"
    /\ call[1].a < call[1].b
    /\ call[1].ret = call[1].a + modulus - call[1].b

\* C4: with operands in [0, m), whatever add_mod_fast, sub_mod_fast or
\* mul_mod_fast returns lies in [0, m) (so it is a valid operand of the next
\* call of a chain).
C4_RangeClosure ==
    \A t \in Callers :
        call[t].pc = "done" /\ Valid(t) =>
            call[t].ret >= 0 /\ call[t].ret < modulus

\* C5: the stored Barrett constant equals floor(2^(2*modulus_bits+3) / m):
\* narrowing to the scalar type loses no bits.
C5_NarrowingLosesNoBits ==
    barrett_constant = (2 ^ (2 * HighestSetBit(modulus) + 3)) \div modulus

C7_MulCommutes ==
    \A t \in Callers :
        In(t, "mul") /\ Valid(t) /\ Ended(t) =>
            Outcome(t) = mul_mod_fast(call[t].b, call[t].a, modulus, modulus_bits,
                                      barrett_constant, barrett_alpha, debug_build)

\* C7 witness: a product of two different operands above 1 was returned.
C7_Witness ==
    /\ In(1, "mul") /\ Valid(1) /\ call[1].pc = "done"
    /\ call[1].a > 1 /\ call[1].b > call[1].a
    /\ call[1].ret > 0

\* C8: in a debug build a call with an operand >= modulus gets no further
\* than the failed assertion (no local is computed, nothing is returned), and
\* with both operands below the modulus the assertion never fails.
C8_AssertGuardsOperands ==
    \A t \in Callers :
        /\ debug_build /\ call[t].pc # "idle" /\ ~Valid(t) =>
              /\ call[t].pc \in {"assert", "assert_failed"}
              /\ call[t].c = 0 /\ call[t].ab = 0 /\ call[t].tmp = 0
              /\ call[t].q = 0 /\ call[t].res = 0 /\ call[t].ret = 0
        /\ Valid(t) => call[t].pc # "assert_failed"

\* C8 witness: a debug-build call whose second operand alone is out of range
\* has failed its assertion.
C8_Witness ==
    /\ debug_build
    /\ call[1].pc = "assert_failed"
    /\ call[1].a < modulus /\ call[1].b >= modulus

\* C9: no step of any caller changes modulus, modulus_bits, barrett_constant
\* or barrett_alpha, and every call that ends among interleaved callers ends
\* as the same call run alone on the backend as constructed.
C9_CallsDoNotInterfere ==
    /\ [][backend' = backend]_vars
    /\ [](\A t \in Callers :
            Ended(t) =>
                Outcome(t) =
                    CASE call[t].op = "add" ->
                           add_mod_fast(call[t].a, call[t].b, modulus, debug_build)
                      [] call[t].op = "sub" ->
                           sub_mod_fast(call[t].a, call[t].b, modulus, debug_build)
                      [] call[t].op = "mul" ->
                           mul_mod_fast(call[t].a, call[t].b, modulus,
                                        ModulusBitsOf(modulus),
                                        precompute_alpha_and_barrett_constant(modulus)[2],
                                        precompute_alpha_and_barrett_constant(modulus)[1],
                                        debug_build))

\* C9 witness: caller 1 has returned a product while caller 2 is in the middle
\* of its own multiplication on the same backend.
C9_Witness ==
    /\ call[1].pc = "done" /\ call[1].op = "mul"
    /\ call[1].a = modulus - 1 /\ call[1].b = modulus - 1
    /\ call[2].pc = "mul_4" /\ call[2].a = modulus - 1

\* C10: with operands in [0, m), no step of mul_mod_fast overflows or
\* underflows: modulus_bits - 2 >= 0, a*b and tmp*barrett_constant fit the
\* doubled width, q*m <= a*b, and ab - q*m fits the scalar width.
C10_MulStepsInRange ==
    \A t \in Callers :
        In(t, "mul") /\ Valid(t) =>
            /\ call[t].pc # "panicked"
            /\ call[t].pc = "mul_1" => call[t].a * call[t].b < DoubledRange
            /\ call[t].pc = "mul_2" => modulus_bits - 2 >= 0
            /\ call[t].pc = "mul_3" => call[t].tmp * barrett_constant < DoubledRange
            /\ call[t].pc = "mul_4" => call[t].q * modulus <= call[t].ab
            /\ call[t].pc = "mul_5" =>
                  /\ call[t].tmp <= call[t].ab
                  /\ call[t].ab - call[t].tmp < ScalarRange

====
